---------------------------- MODULE Spec2Model ----------------------------
(***************************************************************************)
(* The screening engine of turtle-backend: ScreeningService                *)
(* (src/src/services/screeningService.ts), the indicator library           *)
(* (src/unnamed/part_000, i.e. src/utils/indicators.ts) and the types      *)
(* (src/unnamed/part_001).                                                  *)
(*                                                                         *)
(* The service is a single object with one mutable field, progress.  Each  *)
(* call of screen() is an async function: it runs on the single JavaScript *)
(* thread from one await to the next, so one action of this module is one  *)
(* such run-to-await segment of one invocation.  The external provider is  *)
(* the environment: it answers the market-list request and the candle      *)
(* requests with any response of a bounded menu, or with a failure.        *)
(*                                                                         *)
(* Numbers: prices and volumes are integers; the indicator arithmetic is   *)
(* carried out in exact rationals [n/d] with an explicit NaN, where the    *)
(* code uses IEEE doubles.  The two agree except on comparisons of values  *)
(* closer than one rounding error, which the menus below do not contain.   *)
(***************************************************************************)
EXTENDS Integers, Sequences, FiniteSets, TLC

-----------------------------------------------------------------------------
(* Bounds of the model *)

\* the largest number of KRW markets the provider lists
MaxCoins == 2

\* the longest series handed to an indicator on its own
MaxLen == 7

\* the largest period handed to an indicator on its own
MaxPeriod == 5

-----------------------------------------------------------------------------
(* Program constants *)

\* minimum series lengths of the strategies
MinCandlesAll == 22
MinCandlesBullish == 3
MinCandlesHMA == 22
MinCandlesPremiumHMA == 22
MinCandlesPremiumBullish == 5
\* indicator periods
HMAPeriod == 20
ShortHMAPeriod == 5
\* the volume baseline window of `all` and `premium_hma`
VolumeWindow == 10

-----------------------------------------------------------------------------
(* Numbers: exact rationals with NaN *)

NaN == [nan |-> TRUE, n |-> 0, d |-> 1]

Num(k) == [nan |-> FALSE, n |-> k, d |-> 1]

isNaN(a) == a.nan

\* a + b
RAdd(a, b) ==
    IF a.nan \/ b.nan THEN NaN
    ELSE IF a.d = b.d THEN [nan |-> FALSE, n |-> a.n + b.n, d |-> a.d]
    ELSE [nan |-> FALSE, n |-> a.n * b.d + b.n * a.d, d |-> a.d * b.d]

\* a - b
RSub(a, b) == RAdd(a, [b EXCEPT !.n = 0 - b.n])

\* k * a, k an integer
RScale(k, a) == IF a.nan THEN NaN ELSE [a EXCEPT !.n = k * a.n]

\* a / k, k a non-negative integer; 0 / 0 is NaN
RDivInt(a, k) ==
    IF a.nan \/ (k = 0 /\ a.n = 0) THEN NaN ELSE [a EXCEPT !.d = a.d * k]

\* a > b; every comparison with NaN is false
RGt(a, b) ==
    /\ ~a.nan
    /\ ~b.nan
    /\ IF a.d = b.d THEN a.n > b.n ELSE a.n * b.d > b.n * a.d

\* a < b
RLt(a, b) == RGt(b, a)

\* Math.floor(period / 2)
HalfPeriod(period) == period \div 2

\* the root rounded up
SqrtPeriodRoundedUp(period) == CHOOSE r \in 0..period : r * r >= period /\ (r - 1) * (r - 1) < period

\* Math.floor(Math.sqrt(period))
SqrtPeriod(period) == CHOOSE r \in 0..period : r * r <= period /\ (r + 1) * (r + 1) > period

\* array.length
Length(s) == Cardinality(DOMAIN s)

\* Array.prototype.reverse
Reverse(s) == [i \in 1..Length(s) |-> s[Length(s) + 1 - i]]

-----------------------------------------------------------------------------
(* Indicator library.  Arrays are 1-based here: index i+1 is index i there. *)

\* the inner loop of calculateWMA: sum over j >= from of data[i-j] * (period-j)
RECURSIVE WeightedSum(_, _, _, _)
WeightedSum(data, period, i, from) ==
    IF from >= period THEN Num(0)
    ELSE RAdd(RScale(period - from, data[i - from]),
              WeightedSum(data, period, i, from + 1))

\* the loop counting its terms instead of adding their weights
WeightTotalOfOnes(period, from) == IF from >= period THEN 0 ELSE period - from

\* the weight accumulated by the same loop
RECURSIVE WeightTotal(_, _)
WeightTotal(period, from) ==
    IF from >= period THEN 0
    ELSE (period - from) + WeightTotal(period, from + 1)

calculateWMA(data, period) ==
    [i \in 1..Length(data) |->
        IF i - 1 < period - 1 THEN NaN
        ELSE RDivInt(WeightedSum(data, period, i, 0), WeightTotal(period, 0))]

calculateHMA(data, period) ==
    LET halfPeriod == HalfPeriod(period)
        sqrtPeriod == SqrtPeriod(period)
        wma == calculateWMA(data, period)
        halfWma == calculateWMA(data, halfPeriod)
        rawHma == [index \in 1..Length(data) |->
                      IF isNaN(halfWma[index]) \/ isNaN(wma[index]) THEN NaN
                      ELSE RSub(RScale(2, halfWma[index]), wma[index])]
    IN  calculateWMA(rawHma, sqrtPeriod)

\* prices[i], i as in the code (0-based); a read past the end is undefined,
\* which arithmetic turns into NaN
PriceAt(prices, i) == IF i + 1 <= Length(prices) THEN prices[i + 1] ELSE NaN

\* change >= 0; false when change is NaN
NonNegative(change) == ~change.nan /\ change.n >= 0

\* the gain and the loss of the transition into index i
GainAt(prices, i) ==
    LET change == RSub(PriceAt(prices, i), PriceAt(prices, i - 1))
    IN  IF NonNegative(change) THEN change ELSE Num(0)

LossAt(prices, i) ==
    LET change == RSub(PriceAt(prices, i), PriceAt(prices, i - 1))
    IN  IF NonNegative(change) THEN Num(0) ELSE RSub(Num(0), change)

\* the first loop of calculateRSI: gains and losses of transitions i..period
RECURSIVE SeedGains(_, _, _)
SeedGains(prices, period, i) ==
    IF i > period THEN Num(0)
    ELSE RAdd(GainAt(prices, i), SeedGains(prices, period, i + 1))

RECURSIVE SeedLosses(_, _, _)
SeedLosses(prices, period, i) ==
    IF i > period THEN Num(0)
    ELSE RAdd(LossAt(prices, i), SeedLosses(prices, period, i + 1))

\* (avg * (period - 1) + current) / period
Smooth(avg, current, period) ==
    RDivInt(RAdd(RScale(period - 1, avg), current), period)

\* rs = avgGain / avgLoss; 100 - 100 / (1 + rs).  A zero avgLoss makes rs
\* Infinity when avgGain is positive (and the value 100 - 0), NaN when
\* avgGain is zero too; there is no guard.
RSIOf(avgGain, avgLoss) ==
    IF avgGain.nan \/ avgLoss.nan THEN NaN
    ELSE IF avgLoss.n = 0 THEN (IF avgGain.n = 0 THEN NaN ELSE Num(100))
    ELSE IF avgGain.d = avgLoss.d
         THEN [nan |-> FALSE, n |-> 100 * avgGain.n, d |-> avgGain.n + avgLoss.n]
         ELSE [nan |-> FALSE,
               n |-> 100 * avgGain.n * avgLoss.d,
               d |-> avgGain.n * avgLoss.d + avgLoss.n * avgGain.d]

\* the second loop of calculateRSI, from index i on
RECURSIVE RSIFrom(_, _, _, _, _)
RSIFrom(prices, period, i, avgGain, avgLoss) ==
    IF i >= Length(prices) THEN <<>>
    ELSE LET gain == Smooth(avgGain, GainAt(prices, i), period)
             loss == Smooth(avgLoss, LossAt(prices, i), period)
         IN  <<RSIOf(gain, loss)>> \o RSIFrom(prices, period, i + 1, gain, loss)

\* the index of the first transition the second loop handles
RSIFirstIndex(period) == period + 1

calculateRSI(prices, period) ==
    RSIFrom(prices, period, RSIFirstIndex(period),
            RDivInt(SeedGains(prices, period, 1), period),
            RDivInt(SeedLosses(prices, period, 1), period))

isBullishCandle(candle) == candle.trade_price > candle.opening_price

\* a close that only reaches the previous high counts
isClosingAtOrAbovePreviousHigh(current, previous) ==
    current.trade_price >= previous.high_price

isClosingAbovePreviousHigh(current, previous) ==
    current.trade_price > previous.high_price

isHMACrossover(prevPrice, currentPrice, prevHMA, currentHMA) ==
    RLt(prevPrice, prevHMA) /\ RGt(currentPrice, currentHMA)

-----------------------------------------------------------------------------
(* Candle series.  A candle is a record of the fields of CandleData the    *)
(* service reads; candle_date_time_kst is the day number its Date parses   *)
(* to.                                                                      *)

\* insert x behind every candle that is not older than it
RECURSIVE InsertCandle(_, _)
InsertCandle(sorted, x) ==
    IF sorted = <<>> THEN <<x>>
    ELSE IF Head(sorted).candle_date_time_kst - x.candle_date_time_kst >= 0
         THEN <<Head(sorted)>> \o InsertCandle(Tail(sorted), x)
         ELSE <<x>> \o sorted

RECURSIVE SortCandlesFrom(_, _, _)
SortCandlesFrom(candles, k, acc) ==
    IF k > Len(candles) THEN acc
    ELSE SortCandlesFrom(candles, k + 1, InsertCandle(acc, candles[k]))

\* the array as the provider returned it
SortCandlesSkipped(candles) == candles

\* candles.sort((a, b) => time(b) - time(a)): stable, newest first
SortCandles(candles) == SortCandlesFrom(candles, 1, <<>>)

\* candles.map(c => c.trade_price).reverse(), as numbers
ClosePrices(candles) ==
    Reverse([i \in 1..Len(candles) |-> Num(candles[i].trade_price)])

\* candles.map(c => c.candle_acc_trade_volume).reverse()
Volumes(candles) ==
    Reverse([i \in 1..Len(candles) |-> candles[i].candle_acc_trade_volume])

\* volumes.slice(0, 10).reduce((sum, vol) => sum + vol, 0)
RECURSIVE SumFirst(_, _)
SumFirst(volumes, k) ==
    IF k = 0 THEN 0
    ELSE (IF k <= Length(volumes) THEN volumes[k] ELSE 0) + SumFirst(volumes, k - 1)

\* avgVolume = sum of the first ten entries / 10
AvgVolume(volumes) ==
    [nan |-> FALSE, n |-> SumFirst(volumes, VolumeWindow), d |-> VolumeWindow]

\* x > avgVolume * 1.5
ExceedsOneAndHalf(x, avgVolume) == RGt(Num(2 * x), RScale(3, avgVolume))

\* ((cur.trade_price - prev.high_price) / prev.high_price) * 100
BreakoutStrength(current, previous) ==
    [nan |-> FALSE,
     n |-> (current.trade_price - previous.high_price) * 100,
     d |-> previous.high_price]

\* x / avgVolume
VolumeRatio(x, avgVolume) == [nan |-> FALSE, n |-> x * avgVolume.d, d |-> avgVolume.n]

Undefined == [undefined |-> TRUE]

\* filter(Boolean).length
CountTrue(flags) == Cardinality({k \in DOMAIN flags : flags[k]})

-----------------------------------------------------------------------------
(* Condition labels, in the order the code pushes them.  The code's        *)
(* strings are Korean; the names below are those of the specification.     *)

PreviousDayBullish == "previous_day_bullish"
BreakoutAbovePriorHigh == "breakout_above_prior_high"
HMA20Crossover == "hma20_crossover"
VolumeSurge == "volume_surge"
ShortTermUptrend == "short_term_uptrend"
StrongBreakout == "strong_breakout"

\* conditions.push(label) for every flag that holds, in the order given
RECURSIVE PushAll(_, _)
PushAll(flags, labels) ==
    IF labels = <<>> THEN <<>>
    ELSE (IF Head(flags) THEN <<Head(labels)>> ELSE <<>>)
         \o PushAll(Tail(flags), Tail(labels))

Skipped == [skipped |-> TRUE, passed |-> FALSE]

-----------------------------------------------------------------------------
(* The body of each strategy's loop for one coin, from the array that      *)
(* getCoinCandles returned to the point just before the progress update.   *)
(* The outcome is Skipped (the `continue`), or the condition labels pushed, *)
(* whether the coin passed, and the ScreeningResult pushed (without its    *)
(* coin, which the loop adds).                                              *)

\* one base condition is enough
BaseConditionsMetAtLeastOne(isBullish, isBreakout, isHMACross) ==
    CountTrue(<<isBullish, isBreakout, isHMACross>>) >= 1

BaseConditionsMet(isBullish, isBreakout, isHMACross) ==
    CountTrue(<<isBullish, isBreakout, isHMACross>>) >= 2

AdditionalConditionsMet(isHighVolume, isUptrend, isStrongBreakout) ==
    CountTrue(<<isHighVolume, isUptrend, isStrongBreakout>>) >= 1

AllConditionsBody(fetched) ==
    IF Len(fetched) < MinCandlesAll THEN Skipped
    ELSE
    LET candles == SortCandles(fetched)
        isBullish == isBullishCandle(candles[2])
        isBreakout == isClosingAbovePreviousHigh(candles[2], candles[3])
        closePrices == ClosePrices(candles)
        hma20 == Reverse(calculateHMA(closePrices, HMAPeriod))
        isHMACross == isHMACrossover(Num(candles[2].trade_price),
                                     Num(candles[1].trade_price),
                                     hma20[2], hma20[1])
        volumes == Volumes(candles)
        avgVolume == AvgVolume(volumes)
        isHighVolume ==
            ExceedsOneAndHalf(candles[1].candle_acc_trade_volume, avgVolume)
        hma5 == Reverse(calculateHMA(closePrices, ShortHMAPeriod))
        isUptrend == RGt(hma5[1], hma5[2]) /\ RGt(hma5[2], hma5[3])
        breakoutStrength ==
            IF isBreakout THEN BreakoutStrength(candles[2], candles[3]) ELSE Num(0)
        isStrongBreakout == RGt(breakoutStrength, Num(2))
        conditions ==
            PushAll(<<isBullish, isBreakout, isHMACross,
                      isHighVolume, isUptrend, isStrongBreakout>>,
                    <<PreviousDayBullish, BreakoutAbovePriorHigh, HMA20Crossover,
                      VolumeSurge, ShortTermUptrend, StrongBreakout>>)
    IN  [skipped |-> FALSE,
         passed |-> BaseConditionsMet(isBullish, isBreakout, isHMACross)
                    /\ AdditionalConditionsMet(isHighVolume, isUptrend,
                                               isStrongBreakout),
         conditions |-> conditions,
         result |-> [candles |-> candles,
                     conditions |-> conditions,
                     currentPrice |-> candles[1].trade_price,
                     metrics |->
                        [hma20 |-> hma20[1],
                         volumeRatio |->
                            IF isHighVolume
                            THEN VolumeRatio(candles[1].candle_acc_trade_volume,
                                             avgVolume)
                            ELSE Undefined]]]

BullishBreakoutBody(fetched) ==
    IF Len(fetched) < MinCandlesBullish THEN Skipped
    ELSE
    LET candles == SortCandles(fetched)
        isBullish == isBullishCandle(candles[2])
        isBreakout == isClosingAbovePreviousHigh(candles[2], candles[3])
        conditions ==
            IF isBullish /\ isBreakout
            THEN PushAll(<<isBullish, isBreakout>>,
                         <<PreviousDayBullish, BreakoutAbovePriorHigh>>)
            ELSE <<>>
    IN  [skipped |-> FALSE,
         passed |-> isBullish /\ isBreakout,
         conditions |-> conditions,
         result |-> [candles |-> candles, conditions |-> conditions]]

HMACrossoverBody(fetched) ==
    IF Len(fetched) < MinCandlesHMA THEN Skipped
    ELSE
    LET candles == SortCandles(fetched)
        closePrices == ClosePrices(candles)
        hma20 == Reverse(calculateHMA(closePrices, HMAPeriod))
        isHMACross == isHMACrossover(Num(candles[2].trade_price),
                                     Num(candles[1].trade_price),
                                     hma20[2], hma20[1])
        conditions == PushAll(<<isHMACross>>, <<HMA20Crossover>>)
    IN  [skipped |-> FALSE,
         passed |-> isHMACross,
         conditions |-> conditions,
         result |-> [candles |-> candles, conditions |-> conditions]]

\* two of the three conditions are enough
PremiumHMAConditionsMetTwo(conditions) == Len(conditions) >= 2

\* conditions.length === 3
PremiumHMAConditionsMet(conditions) == Len(conditions) = 3

PremiumHMABody(fetched) ==
    IF Len(fetched) < MinCandlesPremiumHMA THEN Skipped
    ELSE
    LET candles == SortCandles(fetched)
        closePrices == ClosePrices(candles)
        hma20 == Reverse(calculateHMA(closePrices, HMAPeriod))
        isHMACross == isHMACrossover(Num(candles[2].trade_price),
                                     Num(candles[1].trade_price),
                                     hma20[2], hma20[1])
        volumes == Volumes(candles)
        avgVolume == AvgVolume(volumes)
        isHighVolume ==
            ExceedsOneAndHalf(candles[1].candle_acc_trade_volume, avgVolume)
        hma5 == Reverse(calculateHMA(closePrices, ShortHMAPeriod))
        isUptrend == RGt(hma5[1], hma5[2]) /\ RGt(hma5[2], hma5[3])
        conditions ==
            IF isHMACross
            THEN PushAll(<<isHMACross, isHighVolume, isUptrend>>,
                         <<HMA20Crossover, VolumeSurge, ShortTermUptrend>>)
            ELSE <<>>
    IN  [skipped |-> FALSE,
         passed |-> isHMACross /\ PremiumHMAConditionsMet(conditions),
         conditions |-> conditions,
         result |-> [candles |-> candles,
                     conditions |-> conditions,
                     currentPrice |-> candles[1].trade_price,
                     metrics |->
                        [hma20 |-> hma20[1],
                         volumeRatio |->
                            VolumeRatio(candles[1].candle_acc_trade_volume,
                                        avgVolume)]]]

\* the three days that end with the previous day
ThreeDayAverageWithPreviousDay(volumes) ==
    [nan |-> FALSE, n |-> volumes[2] + volumes[3] + volumes[4], d |-> 3]

\* (volumes[2] + volumes[3] + volumes[4]) / 3, indices as in the code
ThreeDayAverage(volumes) ==
    [nan |-> FALSE, n |-> volumes[3] + volumes[4] + volumes[5], d |-> 3]

PremiumBullishBreakoutBody(fetched) ==
    IF Len(fetched) < MinCandlesPremiumBullish THEN Skipped
    ELSE
    LET candles == SortCandles(fetched)
        isBullish == isBullishCandle(candles[2])
        isBreakout == isClosingAbovePreviousHigh(candles[2], candles[3])
        volumes == [i \in 1..Len(candles) |-> candles[i].candle_acc_trade_volume]
        avgVolume == ThreeDayAverage(volumes)
        isVolumeIncreased == ExceedsOneAndHalf(volumes[2], avgVolume)
        breakoutStrength == BreakoutStrength(candles[2], candles[3])
        isStrongBreakout == RGt(breakoutStrength, Num(2))
        conditions ==
            PushAll(<<isBullish, isBreakout, isVolumeIncreased, isStrongBreakout>>,
                    <<PreviousDayBullish, BreakoutAbovePriorHigh,
                      VolumeSurge, StrongBreakout>>)
    IN  [skipped |-> FALSE,
         passed |-> isBullish /\ isBreakout
                    /\ (isVolumeIncreased \/ isStrongBreakout),
         conditions |-> conditions,
         result |-> [candles |-> candles, conditions |-> conditions]]

-----------------------------------------------------------------------------
(* The environment: what the provider may answer.                          *)

(* A daily series of len candles, oldest first.  Every close is base but   *)
(* the last four (tail, oldest first); a day opens at the close of the day *)
(* before, but the previous day (index 1 newest-first), which opens at o1; *)
(* the high is one above the larger of open and close.  The volume is vOld *)
(* on the ten oldest days, vBase after them, v1 and v0 on the last two.    *)

CloseOf(p, day) ==
    IF p.len - day <= 3 THEN p.tail[4 - (p.len - day)] ELSE p.base

OpenOf(p, day) ==
    IF p.len - day = 1 THEN p.o1
    ELSE IF day = 1 THEN p.base
    ELSE CloseOf(p, day - 1)

VolumeOf(p, day) ==
    IF p.len - day = 0 THEN p.v0
    ELSE IF p.len - day = 1 THEN p.v1
    ELSE IF day <= 10 THEN p.vOld
    ELSE p.vBase

Chronological(p) ==
    [day \in 1..p.len |->
        [candle_date_time_kst |-> day,
         opening_price |-> OpenOf(p, day),
         high_price |-> (IF OpenOf(p, day) > CloseOf(p, day)
                         THEN OpenOf(p, day) ELSE CloseOf(p, day)) + 1,
         trade_price |-> CloseOf(p, day),
         candle_acc_trade_volume |-> VolumeOf(p, day)]]

\* the provider's array: newest first, oldest first, or rotated by two
ProviderArray(p) ==
    LET asc == Chronological(p)
        desc == Reverse(asc)
    IN  IF p.order = "desc" THEN desc
        ELSE IF p.order = "asc" THEN asc
        ELSE [i \in 1..p.len |-> desc[((i + 1) % p.len) + 1]]

Shape(len, tail, o1, v1, v0, order) ==
    [len |-> len, base |-> 100, tail |-> tail, o1 |-> o1,
     vOld |-> 10, vBase |-> 10, v1 |-> v1, v0 |-> v0, order |-> order]

\* the series the provider may return for a market
CandleMenu ==
    << Shape(30, <<100, 110, 100, 100>>, 103, 10, 10, "desc"),
       Shape(30, <<98, 100, 102, 85>>, 99, 10, 10, "desc"),
       Shape(30, <<100, 90, 80, 102>>, 77, 10, 10, "desc"),
       Shape(30, <<90, 85, 105, 90>>, 108, 10, 10, "desc"),
       Shape(30, <<95, 95, 110, 90>>, 107, 10, 10, "desc"),
       Shape(30, <<100, 90, 80, 102>>, 77, 10, 20, "desc"),
       Shape(30, <<90, 85, 105, 90>>, 102, 10, 20, "desc"),
       Shape(30, <<80, 85, 90, 110>>, 87, 10, 20, "desc"),
       Shape(30, <<80, 85, 90, 110>>, 93, 10, 20, "desc"),
       Shape(30, <<85, 98, 90, 95>>, 87, 10, 20, "desc"),
       Shape(30, <<80, 85, 90, 110>>, 87, 10, 20, "asc"),
       Shape(30, <<95, 95, 110, 90>>, 107, 10, 10, "mixed"),
       Shape(22, <<80, 85, 90, 110>>, 87, 10, 20, "desc"),
       Shape(21, <<80, 85, 90, 110>>, 87, 10, 20, "desc"),
       Shape(5, <<98, 100, 102, 85>>, 99, 20, 10, "asc"),
       Shape(4, <<90, 85, 105, 90>>, 102, 20, 10, "desc"),
       Shape(2, <<100, 100, 100, 105>>, 99, 10, 10, "desc"),
       Shape(4, <<90, 95, 96, 99>>, 94, 10, 10, "desc"),
       [Shape(30, <<98, 100, 102, 85>>, 99, 30, 40, "desc") EXCEPT !.vBase = 30] >>

\* a response to a candle request: 0 is a failed request, k > 0 the k-th series
FetchFailed == 0
CandleResponses == 0..Len(CandleMenu)

\* the responses drawn while several scans run together
ConcurrentCandleResponses == {FetchFailed, 8, 17}

\* a market of the provider's list
Market(quote, k) == [market |-> <<quote, k>>]

\* the provider's list: one BTC market, then n KRW markets
MarketList(n) == <<Market("BTC", 0)>> \o [k \in 1..n |-> Market("KRW", k)]

\* a response to the market-list request: -1 is a failed request
MarketResponses == {-1} \cup (0..MaxCoins)

-----------------------------------------------------------------------------
(* The service *)

VARIABLES
    progress,     \* ScreeningService.progress
    pc,           \* per invocation of screen(): the await it is suspended at
    type,         \* per invocation: the argument of screen()
    running,      \* per invocation: the screening method it dispatched to
    coins,        \* per invocation: const coins
    totalCoins,   \* per invocation: const totalCoins
    loopI,        \* per invocation: the loop variable i
    results,      \* per invocation: const results
    returned,     \* per invocation: what its promise settled with
    marketAsked,  \* history: market-list requests the invocation has issued
    marketGot,    \* history: the responses to its market-list request
    requested,    \* history: the coins (1-based) it has requested candles for
    got,          \* history: the candle responses it has handled, in order
    polled,       \* history: the last getProgress() value a poller read since
                  \* the last reset of a scan, -1 when none
    inputData,    \* the series a caller hands to an indicator
    inputPeriod,  \* the period the caller hands to it
    wmaResult,    \* what calculateWMA returned to that caller, once called
    hmaResult,    \* what calculateHMA returned to that caller, once called
    rsiResult     \* what calculateRSI returned to that caller, once called

\* the state of the service and of its callers
serviceVars == <<progress, pc, type, running, coins, totalCoins, loopI, results,
                 returned, marketAsked, marketGot, requested, got, polled>>

\* the state of a direct caller of the indicator library
indicatorVars == <<inputData, inputPeriod, wmaResult, hmaResult, rsiResult>>

vars == <<progress, pc, type, running, coins, totalCoins, loopI, results,
          returned, marketAsked, marketGot, requested, got, polled,
          inputData, inputPeriod, wmaResult, hmaResult, rsiResult>>

\* the invocations of screen(): two, the pair a claim about concurrent
\* invocations speaks of
Scans == {1, 2}

ScreeningTypes ==
    {"all", "bullish_breakout", "hma_crossover", "premium_hma", "premium_bullish"}

\* the strings a caller may pass: the five names and one that is none of them
RequestedTypes == ScreeningTypes \cup {"turtle"}

None == "none"
Pending == [settled |-> FALSE]
Resolved(value) == [settled |-> TRUE, threw |-> FALSE, value |-> value]
Rejected(error) == [settled |-> TRUE, threw |-> TRUE, error |-> error]

resetProgress == 0

getProgress == progress

\* getCoins without its catch: a failed request propagates
getCoinsRethrow(resp) ==
    [threw |-> resp < 0,
     value |-> IF resp < 0 THEN <<>>
               ELSE SelectSeq(MarketList(resp), LAMBDA c : c.market[1] = "KRW")]

\* getCoins once its request is answered: the KRW markets, [] on failure
getCoins(resp) ==
    [threw |-> FALSE,
     value |-> IF resp < 0 THEN <<>>
               ELSE SelectSeq(MarketList(resp), LAMBDA c : c.market[1] = "KRW")]

\* getCoinCandles without its catch: a failed request propagates
getCoinCandlesRethrow(resp) ==
    [threw |-> resp = FetchFailed,
     value |-> IF resp = FetchFailed THEN <<>>
               ELSE ProviderArray(CandleMenu[resp])]

\* getCoinCandles once its request is answered: the array, [] on failure
getCoinCandles(resp) ==
    [threw |-> FALSE,
     value |-> IF resp = FetchFailed THEN <<>>
               ELSE ProviderArray(CandleMenu[resp])]

\* getCoinCandles without its delay: the request is issued at once
getCoinCandlesEntryNoDelay == "getCandles"

\* the first await of getCoinCandles: delay(500), before the request
getCoinCandlesEntry == "delay500"

\* the first await of a loop iteration
IterationEntry(method) ==
    IF method \in {"screenPremiumHMA", "screenPremiumBullishBreakout"}
    THEN "delay100"
    ELSE getCoinCandlesEntry

\* the switch of screen() with a default strategy instead of the throw
DispatchDefaultAll(t) ==
    CASE t = "bullish_breakout" -> [threw |-> FALSE, method |-> "screenBullishBreakout"]
      [] t = "hma_crossover" -> [threw |-> FALSE, method |-> "screenHMACrossover"]
      [] t = "premium_hma" -> [threw |-> FALSE, method |-> "screenPremiumHMA"]
      [] t = "premium_bullish" ->
            [threw |-> FALSE, method |-> "screenPremiumBullishBreakout"]
      [] OTHER -> [threw |-> FALSE, method |-> "screenAllConditions"]

\* the switch of screen()
Dispatch(t) ==
    CASE t = "all" -> [threw |-> FALSE, method |-> "screenAllConditions"]
      [] t = "bullish_breakout" -> [threw |-> FALSE, method |-> "screenBullishBreakout"]
      [] t = "hma_crossover" -> [threw |-> FALSE, method |-> "screenHMACrossover"]
      [] t = "premium_hma" -> [threw |-> FALSE, method |-> "screenPremiumHMA"]
      [] t = "premium_bullish" ->
            [threw |-> FALSE, method |-> "screenPremiumBullishBreakout"]
      [] OTHER -> [threw |-> TRUE, error |-> <<"Invalid screening type: ", t>>]

Methods ==
    {"screenAllConditions", "screenBullishBreakout", "screenHMACrossover",
     "screenPremiumHMA", "screenPremiumBullishBreakout"}

\* the loop body of a method on one fetched array
LoopBody(method, fetched) ==
    CASE method = "screenAllConditions" -> AllConditionsBody(fetched)
      [] method = "screenBullishBreakout" -> BullishBreakoutBody(fetched)
      [] method = "screenHMACrossover" -> HMACrossoverBody(fetched)
      [] method = "screenPremiumHMA" -> PremiumHMABody(fetched)
      [] method = "screenPremiumBullishBreakout" ->
            PremiumBullishBreakoutBody(fetched)

\* LoopBody on every response of the menu (computed once)
CoinOutcome ==
    [method \in Methods |->
        [resp \in CandleResponses |-> LoopBody(method, getCoinCandles(resp).value)]]

\* the share of the coins still to come
ProgressOfRemaining(k, total) == ((total - k) * 100) \div total

\* Math.floor((k / total) * 100)
ProgressOf(k, total) == (k * 100) \div total

\* the progress after the k-th coin: a skipped coin leaves the loop body at
\* `continue`, before the update
ProgressAfterCoin(skipped, current, k, total) ==
    IF skipped THEN current ELSE ProgressOf(k, total)

\* insert r behind every result with at least as many conditions
RECURSIVE InsertResult(_, _)
InsertResult(sorted, r) ==
    IF sorted = <<>> THEN <<r>>
    ELSE IF Len(r.conditions) - Len(Head(sorted).conditions) <= 0
         THEN <<Head(sorted)>> \o InsertResult(Tail(sorted), r)
         ELSE <<r>> \o sorted

RECURSIVE SortResultsFrom(_, _, _)
SortResultsFrom(rs, k, acc) ==
    IF k > Len(rs) THEN acc
    ELSE SortResultsFrom(rs, k + 1, InsertResult(acc, rs[k]))

\* no sort at all
SortByConditionsSkipped(rs) == rs

\* results.sort((a, b) => b.conditions.length - a.conditions.length): stable
SortByConditions(rs) == SortResultsFrom(rs, 1, <<>>)

\* the return statement of a method
ReturnValue(method, rs) ==
    IF method = "screenAllConditions" THEN SortByConditions(rs) ELSE rs

-----------------------------------------------------------------------------
(* Actions: one per run-to-await segment *)

\* a call that has not been made
NotCalled == [called |-> FALSE]

\* a call that returned value
Returned(value) == [called |-> TRUE, value |-> value]

\* the service after construction, no scan started
InitService ==
    /\ progress = 0
    /\ pc = [s \in Scans |-> "idle"]
    /\ type = [s \in Scans |-> None]
    /\ running = [s \in Scans |-> None]
    /\ coins = [s \in Scans |-> <<>>]
    /\ totalCoins = [s \in Scans |-> 0]
    /\ loopI = [s \in Scans |-> 0]
    /\ results = [s \in Scans |-> <<>>]
    /\ returned = [s \in Scans |-> Pending]
    /\ marketAsked = [s \in Scans |-> 0]
    /\ marketGot = [s \in Scans |-> <<>>]
    /\ requested = [s \in Scans |-> <<>>]
    /\ got = [s \in Scans |-> <<>>]
    /\ polled = -1

\* the service after construction; the indicator library is used only
\* through the service
Init ==
    /\ InitService
    /\ inputData = <<>>
    /\ inputPeriod = HMAPeriod
    /\ wmaResult = NotCalled
    /\ hmaResult = NotCalled
    /\ rsiResult = NotCalled

\* the invocation s moves to the await `at`; entering "getCandles" issues
\* the candle request of the coin at loop index i (0-based)
Suspend(s, at, i) ==
    /\ pc' = [pc EXCEPT ![s] = at]
    /\ requested' = IF at = "getCandles"
                    THEN [requested EXCEPT ![s] = Append(@, i + 1)]
                    ELSE requested

\* the loop test `i < coins.length` and what follows it
LoopTest(s, method, i, coinList, rs) ==
    IF i < Len(coinList)
    THEN /\ Suspend(s, IterationEntry(method), i)
         /\ returned' = returned
    ELSE /\ pc' = [pc EXCEPT ![s] = "done"]
         /\ returned' = [returned EXCEPT ![s] = Resolved(ReturnValue(method, rs))]
         /\ requested' = requested

\* an await that throws rejects the invocation's promise
Throw(s, error) ==
    /\ pc' = [pc EXCEPT ![s] = "rejected"]
    /\ returned' = [returned EXCEPT ![s] = Rejected(error)]

\* screen(t) is called: the switch, the method's first statement, getCoins up
\* to its request
Screen(s, t) ==
    /\ pc[s] = "idle"
    /\ type' = [type EXCEPT ![s] = t]
    /\ LET d == Dispatch(t)
       IN  IF d.threw
           THEN /\ Throw(s, d.error)
                /\ UNCHANGED <<running, marketAsked>>
           ELSE /\ pc' = [pc EXCEPT ![s] = "getCoins"]
                /\ running' = [running EXCEPT ![s] = d.method]
                /\ marketAsked' = [marketAsked EXCEPT ![s] = @ + 1]
                /\ returned' = returned
    /\ UNCHANGED <<progress, coins, totalCoins, loopI, results, marketGot,
                   requested, got, polled>>
    /\ UNCHANGED indicatorVars

\* the market-list request is answered: the rest of getCoins, resetProgress,
\* and the loop up to its first await (or the return, when there is no coin)
CoinsResp(s, resp) ==
    /\ pc[s] = "getCoins"
    /\ marketGot' = [marketGot EXCEPT ![s] = <<resp>>]
    /\ LET answer == getCoins(resp)
       IN  IF answer.threw
           THEN /\ Throw(s, "getCoins")
                /\ UNCHANGED <<progress, coins, totalCoins, requested, polled>>
           ELSE /\ coins' = [coins EXCEPT ![s] = answer.value]
                /\ progress' = resetProgress
                /\ polled' = -1
                /\ totalCoins' = [totalCoins EXCEPT ![s] = Len(answer.value)]
                /\ LoopTest(s, running[s], 0, answer.value, <<>>)
    /\ UNCHANGED <<type, running, loopI, results, marketAsked, got>>
    /\ UNCHANGED indicatorVars

\* the 100 ms timer of the premium methods fires: getCoinCandles is entered
Delay100Done(s) ==
    /\ pc[s] = "delay100"
    /\ Suspend(s, getCoinCandlesEntry, loopI[s])
    /\ UNCHANGED <<progress, type, running, coins, totalCoins, loopI, results,
                   returned, marketAsked, marketGot, got, polled>>
    /\ UNCHANGED indicatorVars

\* delay(500) is over: the candle request is issued
Delay500Done(s) ==
    /\ pc[s] = "delay500"
    /\ Suspend(s, "getCandles", loopI[s])
    /\ UNCHANGED <<progress, type, running, coins, totalCoins, loopI, results,
                   returned, marketAsked, marketGot, got, polled>>
    /\ UNCHANGED indicatorVars

\* one results array on the service, that of the first invocation
ResultsOfFirstScan(all, s) == all[1]

\* const results: a local of the invocation, so each has its own array
OwnResults(all, s) == all[s]

\* the candle request is answered: the rest of getCoinCandles, the loop body
\* for this coin, i++, and the loop up to its next await (or the return)
CandlesResp(s, resp) ==
    /\ pc[s] = "getCandles"
    /\ got' = [got EXCEPT ![s] = Append(@, resp)]
    /\ LET answer == getCoinCandles(resp)
           outcome == CoinOutcome[running[s]][resp]
           coin == coins[s][loopI[s] + 1]
           rs == IF outcome.passed
                 THEN Append(OwnResults(results, s), [coin |-> coin] @@ outcome.result)
                 ELSE OwnResults(results, s)
       IN  IF answer.threw
           THEN /\ Throw(s, "getCoinCandles")
                /\ UNCHANGED <<progress, loopI, results, requested>>
           ELSE /\ results' = [results EXCEPT ![s] = rs]
                /\ progress' = ProgressAfterCoin(outcome.skipped, progress,
                                                 loopI[s] + 1, totalCoins[s])
                /\ loopI' = [loopI EXCEPT ![s] = @ + 1]
                /\ LoopTest(s, running[s], loopI[s] + 1, coins[s], rs)
    /\ UNCHANGED <<type, running, coins, totalCoins, marketAsked, marketGot, polled>>
    /\ UNCHANGED indicatorVars

\* the caller has taken the settled promise: the invocation is over, and the
\* caller may call screen() again
Consume(s) ==
    /\ pc[s] \in {"done", "rejected"}
    /\ pc' = [pc EXCEPT ![s] = "idle"]
    /\ type' = [type EXCEPT ![s] = None]
    /\ running' = [running EXCEPT ![s] = None]
    /\ coins' = [coins EXCEPT ![s] = <<>>]
    /\ totalCoins' = [totalCoins EXCEPT ![s] = 0]
    /\ loopI' = [loopI EXCEPT ![s] = 0]
    /\ results' = [results EXCEPT ![s] = <<>>]
    /\ returned' = [returned EXCEPT ![s] = Pending]
    /\ marketAsked' = [marketAsked EXCEPT ![s] = 0]
    /\ marketGot' = [marketGot EXCEPT ![s] = <<>>]
    /\ requested' = [requested EXCEPT ![s] = <<>>]
    /\ got' = [got EXCEPT ![s] = <<>>]
    /\ UNCHANGED <<progress, polled>>
    /\ UNCHANGED indicatorVars

\* a caller calls resetProgress()
ResetProgress ==
    /\ progress' = resetProgress
    /\ UNCHANGED <<pc, type, running, coins, totalCoins, loopI, results,
                   returned, marketAsked, marketGot, requested, got, polled>>
    /\ UNCHANGED indicatorVars

\* a poller calls getProgress()
Poll ==
    /\ polled' = getProgress
    /\ UNCHANGED <<progress, pc, type, running, coins, totalCoins, loopI,
                   results, returned, marketAsked, marketGot, requested, got>>
    /\ UNCHANGED indicatorVars

\* Two invocations may be in flight together; a caller may reset the
\* progress at any time.
Next ==
    \/ \E s \in Scans, t \in RequestedTypes : Screen(s, t)
    \/ \E s \in Scans, resp \in MarketResponses : CoinsResp(s, resp)
    \/ \E s \in Scans : Delay100Done(s)
    \/ \E s \in Scans : Delay500Done(s)
    \/ \E s \in Scans, resp \in ConcurrentCandleResponses : CandlesResp(s, resp)
    \/ \E s \in Scans : Consume(s)
    \/ ResetProgress

Spec == Init /\ [][Next]_vars

\* One caller, who calls screen() again only after the previous call has
\* returned and never calls resetProgress(); a poller reads the progress.
NextSingle ==
    \/ \E t \in RequestedTypes : Screen(1, t)
    \/ \E resp \in MarketResponses : CoinsResp(1, resp)
    \/ Delay100Done(1)
    \/ Delay500Done(1)
    \/ \E resp \in CandleResponses : CandlesResp(1, resp)
    \/ Consume(1)
    \/ Poll

SpecSingle == Init /\ [][NextSingle]_vars

-----------------------------------------------------------------------------
(* The indicator library called on its own: any series of prices up to     *)
(* MaxLen long and any period up to MaxPeriod.                              *)

\* the prices of the series
PriceLevels == {100, 110}

\* number[] of the given prices
AsNumbers(series) == [i \in 1..Len(series) |-> Num(series[i])]

InitIndicators ==
    /\ InitService
    /\ inputData \in UNION {[1..n -> PriceLevels] : n \in 0..MaxLen}
    /\ inputPeriod \in 1..MaxPeriod
    /\ wmaResult = NotCalled
    /\ hmaResult = NotCalled
    /\ rsiResult = NotCalled

CallWMA ==
    /\ ~wmaResult.called
    /\ wmaResult' = Returned(calculateWMA(AsNumbers(inputData), inputPeriod))
    /\ UNCHANGED <<inputData, inputPeriod, hmaResult, rsiResult>>
    /\ UNCHANGED serviceVars

CallHMA ==
    /\ ~hmaResult.called
    /\ hmaResult' = Returned(calculateHMA(AsNumbers(inputData), inputPeriod))
    /\ UNCHANGED <<inputData, inputPeriod, wmaResult, rsiResult>>
    /\ UNCHANGED serviceVars

CallRSI ==
    /\ ~rsiResult.called
    /\ rsiResult' = Returned(calculateRSI(AsNumbers(inputData), inputPeriod))
    /\ UNCHANGED <<inputData, inputPeriod, wmaResult, hmaResult>>
    /\ UNCHANGED serviceVars

NextIndicators == CallWMA \/ CallHMA \/ CallRSI

SpecIndicators == InitIndicators /\ [][NextIndicators]_vars

-----------------------------------------------------------------------------
(* Properties *)

InLoop == {"delay100", "delay500", "getCandles"}
Active == {"getCoins"} \cup InLoop

\* the coins handled so far by invocation s
Handled(s) == Len(got[s])

\* the place of a coin in the universe
Place(coin) == coin.market[2]

\* the results of the sequence rs that carry the k-th coin of invocation s
ResultsOf(s, rs, k) == {j \in 1..Len(rs) : rs[j].coin = coins[s][k]}

\* the length of the series a candle response carries
SeriesLength(resp) == IF resp = FetchFailed THEN 0 ELSE CandleMenu[resp].len

\* C1: in a scan over a non-empty universe, once the k-th coin has been
\* handled (passed, failed or skipped) progress is floor(k * 100 / total).
C1_ProgressAfterEveryCoin ==
    \A s \in Scans :
        (pc[s] \in InLoop \cup {"done"} /\ Handled(s) >= 1)
            => progress = (Handled(s) * 100) \div totalCoins[s]

\* C2: a scan that has started (its market-list request is pending) never
\* leaves the progress of an earlier scan readable: progress is 0 by then.
C2_ResetBeforeUniverseFetch ==
    \A s \in Scans : pc[s] = "getCoins" => getProgress = 0

\* C3: with one scan at a time and no external reset, getProgress() is always
\* an integer in 0..100, progress falls only at a scan's reset, and what a
\* poller reads between a scan's reset and the next never decreases.
C3_ProgressRangeAndMonotone ==
    /\ [](getProgress \in 0..100 /\ polled \in -1..100)
    /\ [][pc[1] # "getCoins" => progress' >= progress]_vars
    /\ [][(polled # -1 /\ polled' # -1) => polled' >= polled]_vars

C3_Witness ==
    /\ pc[1] = "done"
    /\ polled = 50
    /\ getProgress = 100

\* C4: at most one scan is active at a time on the shared service.
C4_OneActiveScan ==
    Cardinality({s \in Scans : pc[s] \in Active}) <= 1

\* C5: screen() with a name that is none of the five strategies fails with an
\* error naming it, having issued no request and started no method, and the
\* failing call leaves progress as it was.
C5_UnknownTypeFailsFast ==
    /\ [](\A s \in Scans :
            type[s] \notin ScreeningTypes \cup {None}
                => /\ pc[s] = "rejected"
                   /\ returned[s].settled /\ returned[s].threw
                   /\ returned[s].error[2] = type[s]
                   /\ running[s] = None
                   /\ marketAsked[s] = 0
                   /\ requested[s] = <<>>)
    /\ [][\A s \in Scans :
            (pc[s] = "idle" /\ type'[s] \notin ScreeningTypes \cup {None})
                => progress' = progress]_vars

C5_Witness ==
    \E s \in Scans :
        /\ type[s] = "turtle"
        /\ pc[s] = "rejected"
        /\ progress = 100

\* C6: a failed candle request never aborts a scan: the scan is never
\* rejected, each coin is requested at most once and in order, the coin whose
\* request failed has no result, and the scan returns having handled every
\* coin, with a result for every later coin that passes.
C6_FetchFailureDoesNotAbort ==
    \A s \in Scans :
        /\ type[s] \in ScreeningTypes => pc[s] # "rejected"
        /\ requested[s] = [k \in 1..Len(requested[s]) |-> k]
        /\ Len(requested[s]) <= Len(coins[s])
        /\ \A k \in 1..Handled(s) :
              got[s][k] = FetchFailed => ResultsOf(s, results[s], k) = {}
        /\ pc[s] = "done" =>
              /\ Handled(s) = Len(coins[s])
              /\ returned[s].settled /\ ~returned[s].threw
              /\ \A k \in 1..Handled(s) :
                    Cardinality(ResultsOf(s, returned[s].value, k)) =
                        IF CoinOutcome[running[s]][got[s][k]].passed THEN 1 ELSE 0

C6_Witness ==
    \E s \in Scans :
        /\ pc[s] = "done"
        /\ Handled(s) = 2
        /\ got[s][1] = FetchFailed
        /\ Len(returned[s].value) = 1

\* a market-list response that failed or lists no KRW market
NoMarket(answers) == answers # <<>> /\ answers[1] <= 0

\* C7: when the market list is empty or its request fails, the scan returns
\* an empty list at once with progress 0, issues no candle request, and no
\* later step of it changes progress.
C7_EmptyUniverse ==
    /\ [](\A s \in Scans :
            (pc[s] = "done" /\ coins[s] = <<>>)
                => /\ returned[s] = [settled |-> TRUE, threw |-> FALSE, value |-> <<>>]
                   /\ requested[s] = <<>>
                   /\ got[s] = <<>>)
    /\ [][\A s \in Scans :
            (pc[s] = "getCoins" /\ pc'[s] # "getCoins" /\ NoMarket(marketGot'[s]))
                => /\ pc'[s] = "done"
                   /\ coins'[s] = <<>>
                   /\ returned'[s].settled /\ ~returned'[s].threw
                   /\ returned'[s].value = <<>>
                   /\ progress' = 0]_vars
    /\ [][\A s \in Scans :
            (NoMarket(marketGot[s]) /\ pc'[s] # pc[s])
                => progress' = progress]_vars

C7_Witness ==
    \E s \in Scans :
        /\ pc[s] = "done"
        /\ marketGot[s] = <<-1>>
        /\ returned[s].value = <<>>
        /\ progress = 0

\* C8: within one scan at most one candle request is in flight, the requests
\* go out in universe order, the request for a coin goes out only when every
\* coin before it has been handled, and the step that issues a request is the
\* end of the 500 ms delay.
C8_SequentialFetches ==
    /\ [](\A s \in Scans :
            /\ Len(requested[s]) - Handled(s) \in {0, 1}
            /\ (Len(requested[s]) - Handled(s) = 1) <=> (pc[s] = "getCandles")
            /\ requested[s] = [k \in 1..Len(requested[s]) |-> k])
    /\ [][\A s \in Scans :
            Len(requested'[s]) > Len(requested[s])
                => /\ pc[s] = "delay500"
                   /\ requested'[s] = Append(requested[s], Handled(s) + 1)]_vars

C8_Witness ==
    \E s \in Scans :
        /\ pc[s] = "getCandles"
        /\ requested[s] = <<1, 2>>
        /\ running[s] = "screenPremiumHMA"

C10_ResultOrder ==
    \A s \in Scans :
        pc[s] = "done" =>
            LET v == returned[s].value
            IN  /\ Len(v) = Len(results[s])
                /\ {v[j] : j \in 1..Len(v)} = {results[s][j] : j \in 1..Len(v)}
                /\ \A j, k \in 1..Len(v) :
                      j < k =>
                        IF running[s] = "screenAllConditions"
                        THEN \/ Len(v[j].conditions) > Len(v[k].conditions)
                             \/ /\ Len(v[j].conditions) = Len(v[k].conditions)
                                /\ Place(v[j].coin) < Place(v[k].coin)
                        ELSE Place(v[j].coin) < Place(v[k].coin)

C10_Witness ==
    /\ pc[1] = "done"
    /\ running[1] = "screenAllConditions"
    /\ got[1] = <<5, 8>>
    /\ Place(returned[1].value[1].coin) = 2
    /\ Place(returned[1].value[2].coin) = 1

\* the series of a candle response, newest first, as the provider's data
\* define it (not as the service sorts it)
Descending(resp) == Reverse(Chronological(CandleMenu[resp]))

\* the conditions the `all` evaluator finds to hold on the series of a response
HeldOn(resp) ==
    LET labels == CoinOutcome["screenAllConditions"][resp].conditions
    IN  IF SeriesLength(resp) >= 22
        THEN {labels[j] : j \in 1..Len(labels)}
        ELSE {}

PremiumBullishQualifies(d) ==
    /\ Length(d) >= 5
    /\ d[2].trade_price > d[2].opening_price
    /\ d[2].trade_price > d[3].high_price
    /\ \/ 2 * d[2].candle_acc_trade_volume >
             d[3].candle_acc_trade_volume + d[4].candle_acc_trade_volume
                + d[5].candle_acc_trade_volume
       \/ (d[2].trade_price - d[3].high_price) * 100 > 2 * d[3].high_price

\* C12: in a `premium_bullish` scan a handled coin has a result if and only
\* if its series has at least 5 candles, the previous day is bullish and
\* closes above the prior high, and the previous day's volume exceeds 1.5
\* times the average of the three days before it or the breakout exceeds 2%.
C12_PremiumBullishRule ==
    \A s \in Scans :
        running[s] = "screenPremiumBullishBreakout" =>
            \A k \in 1..Handled(s) :
                LET resp == got[s][k]
                    expected ==
                        IF resp # FetchFailed /\ PremiumBullishQualifies(Descending(resp))
                        THEN 1 ELSE 0
                IN  /\ Cardinality(ResultsOf(s, results[s], k)) = expected
                    /\ pc[s] = "done" =>
                          Cardinality(ResultsOf(s, returned[s].value, k)) = expected

\* a five-candle series passes on the 3-day volume alone, a thirty-candle
\* series with a surge against the 10-day window only does not
C12_Witness ==
    /\ pc[1] = "done"
    /\ running[1] = "screenPremiumBullishBreakout"
    /\ got[1] = <<15, 6>>
    /\ VolumeSurge \in HeldOn(6)
    /\ Len(returned[1].value) = 1
    /\ returned[1].value[1].conditions =
          <<PreviousDayBullish, BreakoutAbovePriorHigh, VolumeSurge>>

\* the bullish_breakout rule read off the newest-first series d
BullishBreakoutQualifies(d) ==
    /\ Length(d) >= 3
    /\ d[2].trade_price > d[2].opening_price
    /\ d[2].trade_price > d[3].high_price

\* C13: in a `bullish_breakout` scan a handled coin has a result if and only
\* if its series has at least 3 candles, the previous day closes above its
\* open and above the high of the day before; every result carries exactly
\* the two labels, previous-day-bullish first.
C13_BullishBreakoutRule ==
    \A s \in Scans :
        running[s] = "screenBullishBreakout" =>
            /\ \A k \in 1..Handled(s) :
                  LET resp == got[s][k]
                      expected ==
                          IF resp # FetchFailed /\ BullishBreakoutQualifies(Descending(resp))
                          THEN 1 ELSE 0
                  IN  /\ Cardinality(ResultsOf(s, results[s], k)) = expected
                      /\ pc[s] = "done" =>
                            Cardinality(ResultsOf(s, returned[s].value, k)) = expected
            /\ \A j \in 1..Len(results[s]) :
                  results[s][j].conditions = <<PreviousDayBullish, BreakoutAbovePriorHigh>>

\* a four-candle series passes; one whose close only reaches the prior high
\* does not
C13_Witness ==
    /\ pc[1] = "done"
    /\ running[1] = "screenBullishBreakout"
    /\ got[1] = <<16, 18>>
    /\ Descending(18)[2].trade_price = Descending(18)[3].high_price
    /\ Len(returned[1].value) = 1
    /\ Place(returned[1].value[1].coin) = 1

\* the labels of a result, as a set
LabelsOf(r) == {r.conditions[j] : j \in 1..Len(r.conditions)}

\* the sum of the volumes of d[from..to]
RECURSIVE VolumeSum(_, _, _)
VolumeSum(d, from, to) ==
    IF from > to THEN 0
    ELSE d[from].candle_acc_trade_volume + VolumeSum(d, from + 1, to)

\* on the newest-first series d: the latest volume exceeds 1.5 times the
\* average volume of the ten days before it
SurgeOverRecentTen(d) ==
    2 * 10 * d[1].candle_acc_trade_volume > 3 * VolumeSum(d, 2, 11)

\* C14: in an `all` or `premium_hma` scan a result carries volume_surge if
\* and only if the latest volume of its series exceeds 1.5 times the average
\* volume of the 10 most recent days before it.
C14_VolumeSurgeBaseline ==
    \A s \in Scans :
        running[s] \in {"screenAllConditions", "screenPremiumHMA"} =>
            \A j \in 1..Len(results[s]) :
                (VolumeSurge \in LabelsOf(results[s][j]))
                    <=> SurgeOverRecentTen(results[s][j].candles)

\* Math.floor(Math.sqrt(p)), restated
FloorRoot(p) == CHOOSE r \in 0..p : r * r <= p /\ (r + 1) * (r + 1) > p

\* the series out is as long as the series in, undefined at the (0-based)
\* indices below first and defined from first on
DefinedFrom(out, in, first) ==
    /\ Length(out) = Len(in)
    /\ \A i \in 0..(Len(in) - 1) : isNaN(out[i + 1]) <=> (i < first)

\* C15, as stated: for every period, calculateHMA returns a series as long as
\* its input, undefined below index period + root - 2 and defined from there.
C15_HMADefinedFrom ==
    hmaResult.called =>
        DefinedFrom(hmaResult.value, inputData,
                    inputPeriod + FloorRoot(inputPeriod) - 2)

\* C15, amended: the same for every period of at least 2.
C15_HMADefinedFromPeriodTwo ==
    (hmaResult.called /\ inputPeriod >= 2) =>
        DefinedFrom(hmaResult.value, inputData,
                    inputPeriod + FloorRoot(inputPeriod) - 2)

\* period 5 on seven prices: indices 0..4 undefined, 5 and 6 defined
C15_Witness ==
    /\ hmaResult.called
    /\ inputPeriod = 5
    /\ Len(inputData) = 7
    /\ isNaN(hmaResult.value[5])
    /\ ~isNaN(hmaResult.value[6])
    /\ ~isNaN(hmaResult.value[7])

\* C16: for a series longer than period, calculateRSI returns
\* len(prices) - period values, the first for input index period.
C16_RSIOutputLength ==
    (rsiResult.called /\ Len(inputData) > inputPeriod) =>
        Len(rsiResult.value) = Len(inputData) - inputPeriod

\* C17: calculateRSI never emits NaN.
C17_RSINeverNaN ==
    rsiResult.called =>
        \A i \in 1..Len(rsiResult.value) : ~isNaN(rsiResult.value[i])

\* the number a is the integer v
IsInteger(a, v) == ~a.nan /\ a.n = v * a.d

OutcomeOnDescending ==
    [method \in Methods |->
        [resp \in CandleResponses |->
            LoopBody(method, IF resp = FetchFailed THEN <<>> ELSE Descending(resp))]]

\* C19: whatever order the provider returns the candles in, a coin's result
\* stores the series newest first, and the coin passes, with the same
\* conditions, exactly when the newest-first arrangement of the same candles
\* passes.
C19_SortedBeforeEvaluation ==
    \A s \in Scans :
        running[s] \in Methods =>
            \A k \in 1..Handled(s) :
                LET resp == got[s][k]
                    onSorted == OutcomeOnDescending[running[s]][resp]
                    mine == ResultsOf(s, results[s], k)
                IN  /\ Cardinality(mine) = IF onSorted.passed THEN 1 ELSE 0
                    /\ \A j \in mine :
                          /\ results[s][j].candles = Descending(resp)
                          /\ \A i \in 1..(Len(results[s][j].candles) - 1) :
                                results[s][j].candles[i].candle_date_time_kst >
                                    results[s][j].candles[i + 1].candle_date_time_kst
                          /\ results[s][j].conditions = onSorted.conditions

\* an oldest-first and a rotated response both pass and are stored sorted
C19_Witness ==
    /\ pc[1] = "done"
    /\ running[1] = "screenAllConditions"
    /\ got[1] = <<11, 12>>
    /\ ProviderArray(CandleMenu[11])[1].candle_date_time_kst = 1
    /\ ProviderArray(CandleMenu[12])[1].candle_date_time_kst # 30
    /\ Len(returned[1].value) = 2
    /\ returned[1].value[1].candles[1].candle_date_time_kst = 30
    /\ returned[1].value[2].candles[1].candle_date_time_kst = 30

\* C20: when a scan over a non-empty universe returns, progress is 100.
C20_ProgressCompleteAtReturn ==
    \A s \in Scans :
        (pc[s] = "done" /\ coins[s] # <<>>) => getProgress = 100

\* the HMA(20) series of every response of at least 22 candles, re-aligned
\* newest first (computed once)
HMA20NewestFirst ==
    [resp \in 1..Len(CandleMenu) |->
        IF SeriesLength(resp) >= 22
        THEN Reverse(calculateHMA(ClosePrices(Descending(resp)), HMAPeriod))
        ELSE <<>>]

\* C21: for every series of at least 22 candles that an `all`,
\* `hma_crossover` or `premium_hma` scan evaluates, the two HMA(20) values
\* of the crossover test are defined, and so is the hma20 metric of every
\* result.
C21_HMA20DefinedAtMinimum ==
    \A s \in Scans :
        running[s] \in {"screenAllConditions", "screenHMACrossover", "screenPremiumHMA"} =>
            /\ \A k \in 1..Handled(s) :
                  SeriesLength(got[s][k]) >= 22 =>
                      /\ ~isNaN(HMA20NewestFirst[got[s][k]][1])
                      /\ ~isNaN(HMA20NewestFirst[got[s][k]][2])
            /\ running[s] # "screenHMACrossover" =>
                  \A j \in 1..Len(results[s]) : ~isNaN(results[s][j].metrics.hma20)

\* the list a method collects when it runs alone over coinList and is given
\* the candle responses answers, in order
RECURSIVE CollectedAlone(_, _, _, _)
CollectedAlone(method, coinList, answers, k) ==
    IF k = 0 THEN <<>>
    ELSE LET before == CollectedAlone(method, coinList, answers, k - 1)
             outcome == OutcomeOnDescending[method][answers[k]]
         IN  IF outcome.passed
             THEN Append(before, [coin |-> coinList[k]] @@ outcome.result)
             ELSE before

\* the list sorted by descending number of conditions, ties in list order
IsStablySorted(sorted, list) ==
    /\ Len(sorted) = Len(list)
    /\ \E f \in [1..Len(list) -> 1..Len(list)] :
          /\ \A i, j \in 1..Len(list) : i # j => f[i] # f[j]
          /\ \A i \in 1..Len(list) : sorted[i] = list[f[i]]
          /\ \A i, j \in 1..Len(list) :
                i < j =>
                    \/ Len(sorted[i].conditions) > Len(sorted[j].conditions)
                    \/ /\ Len(sorted[i].conditions) = Len(sorted[j].conditions)
                       /\ f[i] < f[j]

\* C22: whatever two invocations of screen() do in between, the list an
\* invocation has collected, and the list it returns, are those it collects
\* and returns alone on the candles it was given: no result of the other
\* invocation in it, none of its own missing, none out of place.
C22_ResultsAsWhenAlone ==
    \A s \in Scans :
        running[s] \in Methods =>
            LET alone == CollectedAlone(running[s], coins[s], got[s], Handled(s))
            IN  /\ results[s] = alone
                /\ pc[s] = "done" =>
                      IF running[s] = "screenAllConditions"
                      THEN IsStablySorted(returned[s].value, alone)
                      ELSE returned[s].value = alone

\* the first scan returns one result of its second coin while the second
\* scan, started meanwhile, holds a result of its first coin
C22_Witness ==
    /\ pc[1] = "done"
    /\ pc[2] \in InLoop
    /\ got[1] = <<17, 8>>
    /\ got[2] = <<8>>
    /\ Len(returned[1].value) = 1
    /\ Place(returned[1].value[1].coin) = 2
    /\ Len(results[2]) = 1
    /\ Place(results[2][1].coin) = 1

=============================================================================
